---- MODULE Spec2Model ----
(***************************************************************************)
(* Model of font_manager_server.py: the stylesheet rule engine             *)
(* (list / add / delete / edit of @font-face blocks in user.css) and the   *)
(* font asset directory.                                                   *)
(*                                                                         *)
(* Text is a sequence of tokens.  The literal pieces the code emits or     *)
(* matches ("@font-face", "font-family", ":", "url(", quotes, braces,      *)
(* "/", the marker comment, " " and "\n") are tokens of their own; the     *)
(* strings a caller supplies (family, file name, weight, style) are        *)
(* sequences of tokens, so that prefixes, substrings, quoting and          *)
(* whitespace are what the regular expressions and the `in` tests of the   *)
(* code see.                                                               *)
(***************************************************************************)
EXTENDS Integers, Sequences, FiniteSets, TLC

VARIABLES
    cssExists,   \* public/css/user.css exists
    content,     \* its text (<<>> when it does not exist)
    fontDir,     \* public/webfonts/myfonts: file name -> bytes
    last,        \* the last request served: its number, arguments and response
                 \* status, the I/O step that raised (if one did), whether no
                 \* I/O step has raised since the start, the files as
                 \* they were when it arrived, and whether
                 \* it repeats the call before it ("no", or that call having
                 \* succeeded: "after_change" when it had changed the files,
                 \* "after_noop" when it had not)
    race         \* requests in flight at the same time: the clock of their
                 \* steps, the uploads suspended at `await font_file.read()`,
                 \* the responses given so far and the stylesheet at the start

vars == <<cssExists, content, fontDir, last, race>>

----------------------------------------------------------------------------
(* Bounds *)

MaxRequests == 3    \* requests served in one run

(* Inputs *)

FileNames == { <<"a.woff">>, <<"a.woff", "2">> }
Families == { <<"A">>, <<"B">> }
NewFamilies == Families \cup { <<"C">> }
Weights == { <<"400">> }
Styles == { <<"normal">> }
Bytes == {1, 2}

----------------------------------------------------------------------------
(* Text helpers: Python str / re primitives over token sequences *)

WS == {" ", "\n"}
Quotes == {"'", "\""}
Marker == "/* --- Added by Font Manager Panel --- */"
\* mutant: the pattern compiled without re.IGNORECASE
KeywordsCaseSensitive == {"@font-face"}
Keywords == {"@font-face", "@FONT-FACE"}

MinOf(S) == CHOOSE x \in S : \A y \in S : x <= y
MaxOf(S) == CHOOSE x \in S : \A y \in S : x >= y

\* first position >= i holding a token of set T, or 0
FirstIn(s, i, T) ==
    LET hits == {k \in i..Len(s) : s[k] \in T}
    IN IF hits = {} THEN 0 ELSE MinOf(hits)

\* \s* starting at position i: the first position >= i that is not whitespace
SkipWS(s, i) ==
    LET rest == {k \in i..Len(s) : s[k] \notin WS}
    IN IF rest = {} THEN Len(s) + 1 ELSE MinOf(rest)

\* str.strip(): drop leading and trailing whitespace
LStrip(s) == SubSeq(s, SkipWS(s, 1), Len(s))

Strip(s) ==
    LET body == {k \in 1..Len(s) : s[k] \notin WS}
    IN IF body = {} THEN <<>> ELSE SubSeq(s, MinOf(body), MaxOf(body))

\* sub occurs at position i of s
OccursAt(s, sub, i) ==
    /\ i >= 1
    /\ i + Len(sub) - 1 <= Len(s)
    /\ \A k \in 1..Len(sub) : s[i + k - 1] = sub[k]

\* Python `sub in s`
Contains(s, sub) == \E i \in 1..(Len(s) + 1) : OccursAt(s, sub, i)

\* Python s.replace(sub, ''): every non-overlapping occurrence, left to right
RECURSIVE RemoveAll(_, _)
RemoveAll(s, sub) ==
    LET hits == {i \in 1..Len(s) : OccursAt(s, sub, i)}
    IN IF sub = <<>> \/ hits = {} THEN s
       ELSE LET i == MinOf(hits)
            IN SubSeq(s, 1, i - 1) \o RemoveAll(SubSeq(s, i + Len(sub), Len(s)), sub)

\* Python sep.join(parts)
RECURSIVE Join(_, _)
Join(parts, sep) ==
    IF parts = <<>> THEN <<>>
    ELSE IF Len(parts) = 1 THEN parts[1]
    ELSE parts[1] \o sep \o Join(Tail(parts), sep)

\* mutant: the url path taken whole as the file name
basename_whole_path(p) == p

\* os.path.basename: what follows the last "/"
basename(p) ==
    LET slashes == {k \in 1..Len(p) : p[k] = "/"}
    IN IF slashes = {} THEN p ELSE SubSeq(p, MaxOf(slashes) + 1, Len(p))

----------------------------------------------------------------------------
(* get_font_face_blocks: re.findall(r"@font-face\s*\{[^\}]*\}", DOTALL|IGNORECASE) *)

\* end position of the match that starts at i, or 0 when none starts there
BlockEndAt(s, i) ==
    IF i > Len(s) \/ s[i] \notin Keywords THEN 0
    ELSE LET j == SkipWS(s, i + 1)
         IN IF j > Len(s) \/ s[j] # "{" THEN 0
            ELSE FirstIn(s, j + 1, {"}"})

\* findall: the leftmost match at or after i, then on from its end
RECURSIVE BlocksFrom(_, _)
BlocksFrom(s, i) ==
    LET starts == {k \in i..Len(s) : BlockEndAt(s, k) # 0}
    IN IF starts = {} THEN <<>>
       ELSE LET b == MinOf(starts)
                e == BlockEndAt(s, b)
            IN <<SubSeq(s, b, e)>> \o BlocksFrom(s, e + 1)

get_font_face_blocks(text) == BlocksFrom(text, 1)

----------------------------------------------------------------------------
(* parse_user_css *)

FamilyProps == {"font-family", "FONT-FAMILY"}
SrcProps == {"src", "SRC"}
UrlOpen == {"url(", "URL("}

\* re.search(r"font-family:\s*['\"]([^'\"]+)['\"]") anchored at p:
\* <<position of the opening quote, position of the closing quote>>, or <<0, 0>>
FamilyAt(b, p) ==
    IF p + 1 > Len(b) \/ b[p] \notin FamilyProps \/ b[p + 1] # ":" THEN <<0, 0>>
    ELSE LET q == SkipWS(b, p + 2)
         IN IF q > Len(b) \/ b[q] \notin Quotes THEN <<0, 0>>
            ELSE LET e == FirstIn(b, q + 1, Quotes)
                 IN IF e > q + 1 THEN <<q, e>> ELSE <<0, 0>>

\* re.search: the leftmost position where the pattern matches
FamilySearch(b) ==
    LET starts == {p \in 1..Len(b) : FamilyAt(b, p) # <<0, 0>>}
    IN IF starts = {} THEN <<0, 0>> ELSE FamilyAt(b, MinOf(starts))

\* re.search(r"src:\s*url\(['\"]([^'\"]+)['\"]\)") anchored at p
SrcAt(b, p) ==
    IF p + 1 > Len(b) \/ b[p] \notin SrcProps \/ b[p + 1] # ":" THEN <<0, 0>>
    ELSE LET u == SkipWS(b, p + 2)
         IN IF u + 1 > Len(b) \/ b[u] \notin UrlOpen \/ b[u + 1] \notin Quotes
            THEN <<0, 0>>
            ELSE LET e == FirstIn(b, u + 2, Quotes)
                 IN IF e > u + 2 /\ e + 1 <= Len(b) /\ b[e + 1] = ")"
                    THEN <<u + 1, e>> ELSE <<0, 0>>

SrcSearch(b) ==
    LET starts == {p \in 1..Len(b) : SrcAt(b, p) # <<0, 0>>}
    IN IF starts = {} THEN <<0, 0>> ELSE SrcAt(b, MinOf(starts))

Group(b, m) == SubSeq(b, m[1] + 1, m[2] - 1)

\* the fonts.append loop over the extracted blocks
RECURSIVE FontsOf(_)
FontsOf(blocks) ==
    IF blocks = <<>> THEN <<>>
    ELSE LET block == Head(blocks)
             family_match == FamilySearch(block)
             src_match == SrcSearch(block)
         IN (IF family_match # <<0, 0>> /\ src_match # <<0, 0>>
             THEN << [fontFamily |-> Group(block, family_match),
                      fileName |-> basename(Group(block, src_match))] >>
             ELSE <<>>)
            \o FontsOf(Tail(blocks))

parse_user_css(exists, text) ==
    IF ~exists THEN <<>> ELSE FontsOf(get_font_face_blocks(text))

----------------------------------------------------------------------------
(* update_css_file and add_font_to_css *)

\* mutant: the text written as it is stripped, without the newline
update_css_file_without_newline(new_content) == Strip(new_content)

\* what update_css_file writes: new_content.strip() + "\n"
update_css_file(new_content) == Strip(new_content) \o <<"\n">>

font_url(file_name) == <<"/", "webfonts", "/", "myfonts", "/">> \o file_name

\* new_rule.strip(): the marker comment and the block
new_rule(font_family, font_weight, font_style, file_name) ==
    Strip(
        <<"\n", Marker, "\n", "@font-face", " ", "{", "\n">>
        \o <<" ", " ", "font-family", ":", " ", "'">> \o font_family \o <<"'", ";", "\n">>
        \o <<" ", " ", "src", ":", " ", "url(", "'">> \o font_url(file_name)
        \o <<"'", ")", ";", "\n">>
        \o <<" ", " ", "font-weight", ":", " ">> \o font_weight \o <<";", "\n">>
        \o <<" ", " ", "font-style", ":", " ">> \o font_style \o <<";", "\n">>
        \o <<"}", "\n">>)

\* mutant: the stylesheet opened in mode 'w', so that the rule replaces the text
add_font_to_css_truncating(text, font_family, font_weight, font_style, file_name) ==
    <<"\n">> \o new_rule(font_family, font_weight, font_style, file_name) \o <<"\n">>

\* the text of user.css after the append (mode 'a' creates a missing file)
add_font_to_css(text, font_family, font_weight, font_style, file_name) ==
    text \o <<"\n">> \o new_rule(font_family, font_weight, font_style, file_name)
         \o <<"\n">>

----------------------------------------------------------------------------
(* The text transformations of delete_font and edit_font *)

Quoted(q, str) == <<q>> \o str \o <<q>>

\* the is_match test of both handlers: two substring tests on the block
is_match(block, fontFamily, fileName) ==
    /\ \/ Contains(block, Quoted("'", fontFamily))
       \/ Contains(block, Quoted("\"", fontFamily))
    /\ Contains(block, <<"/">> \o fileName)

RECURSIVE blocks_to_keep(_, _, _)
blocks_to_keep(blocks, fontFamily, fileName) ==
    IF blocks = <<>> THEN <<>>
    ELSE (IF is_match(Head(blocks), fontFamily, fileName) THEN <<>>
          ELSE <<Head(blocks)>>)
         \o blocks_to_keep(Tail(blocks), fontFamily, fileName)

\* comment_pattern.sub('', text): each marker comment and the whitespace after it
RECURSIVE StripMarkers(_)
StripMarkers(s) ==
    LET m == FirstIn(s, 1, {Marker})
    IN IF m = 0 THEN s
       ELSE SubSeq(s, 1, m - 1) \o StripMarkers(SubSeq(s, SkipWS(s, m + 1), Len(s)))

\* for block in all_blocks: text = text.replace(block, '')
RECURSIVE RemoveBlocks(_, _)
RemoveBlocks(text, blocks) ==
    IF blocks = <<>> THEN text
    ELSE RemoveBlocks(RemoveAll(text, Head(blocks)), Tail(blocks))

\* mutant: the stylesheet rebuilt from the kept blocks alone
delete_final_content_blocks_only(text, fontFamily, fileName) ==
    Strip(Join(blocks_to_keep(get_font_face_blocks(text), fontFamily, fileName),
               <<"\n">>))

\* final_content of delete_font (taken when deleted_count > 0)
delete_final_content(text, fontFamily, fileName) ==
    LET all_blocks == get_font_face_blocks(text)
        new_content ==
            Strip(Join(blocks_to_keep(all_blocks, fontFamily, fileName), <<"\n">>))
        other_css_rules == RemoveBlocks(StripMarkers(text), all_blocks)
    IN Strip(Strip(other_css_rules) \o <<"\n", "\n">> \o new_content)

\* re.sub(r"(font-family\s*:\s*['\"])([^'\"]+)(['\"])", count=1) anchored at p:
\* <<position of the opening quote, position of the closing quote>>, or <<0, 0>>
EditAt(b, p) ==
    IF p > Len(b) \/ b[p] \notin FamilyProps THEN <<0, 0>>
    ELSE LET c == SkipWS(b, p + 1)
         IN IF c > Len(b) \/ b[c] # ":" THEN <<0, 0>>
            ELSE LET q == SkipWS(b, c + 1)
                 IN IF q > Len(b) \/ b[q] \notin Quotes THEN <<0, 0>>
                    ELSE LET e == FirstIn(b, q + 1, Quotes)
                         IN IF e > q + 1 THEN <<q, e>> ELSE <<0, 0>>

EditSearch(b) ==
    LET starts == {p \in 1..Len(b) : EditAt(b, p) # <<0, 0>>}
    IN IF starts = {} THEN <<0, 0>> ELSE EditAt(b, MinOf(starts))

\* mutant: the value written back in single quotes whatever the block used
new_block_single_quoted(block, newFontFamily) ==
    LET m == EditSearch(block)
    IN IF m = <<0, 0>> THEN block
       ELSE SubSeq(block, 1, m[1] - 1) \o Quoted("'", newFontFamily)
            \o SubSeq(block, m[2] + 1, Len(block))

\* new_block: the first font-family value replaced, its quotes kept
new_block(block, newFontFamily) ==
    LET m == EditSearch(block)
    IN IF m = <<0, 0>> THEN block
       ELSE SubSeq(block, 1, m[1]) \o newFontFamily \o SubSeq(block, m[2], Len(block))

RECURSIVE new_blocks(_, _, _, _)
new_blocks(blocks, oldFontFamily, newFontFamily, fileName) ==
    IF blocks = <<>> THEN <<>>
    ELSE << IF is_match(Head(blocks), oldFontFamily, fileName)
            THEN new_block(Head(blocks), newFontFamily)
            ELSE Head(blocks) >>
         \o new_blocks(Tail(blocks), oldFontFamily, newFontFamily, fileName)

\* deleted_count / edited_count
RECURSIVE match_count(_, _, _)
match_count(blocks, fontFamily, fileName) ==
    IF blocks = <<>> THEN 0
    ELSE (IF is_match(Head(blocks), fontFamily, fileName) THEN 1 ELSE 0)
         + match_count(Tail(blocks), fontFamily, fileName)

\* mutant: the marker comments stripped as delete_font strips them
edit_final_content_without_markers(text, oldFontFamily, newFontFamily, fileName) ==
    LET all_blocks == get_font_face_blocks(text)
        other_css_rules == RemoveBlocks(StripMarkers(text), all_blocks)
    IN Strip(Strip(other_css_rules) \o <<"\n", "\n">>
             \o Join(new_blocks(all_blocks, oldFontFamily, newFontFamily, fileName),
                     <<"\n">>))

\* final_content of edit_font (taken when edited_count > 0)
edit_final_content(text, oldFontFamily, newFontFamily, fileName) ==
    LET all_blocks == get_font_face_blocks(text)
        other_css_rules == RemoveBlocks(text, all_blocks)
    IN Strip(Strip(other_css_rules) \o <<"\n", "\n">>
             \o Join(new_blocks(all_blocks, oldFontFamily, newFontFamily, fileName),
                     <<"\n">>))

----------------------------------------------------------------------------
(* State machine: one action per request handler *)

NoFile == [f \in {} |-> 0]

\* a stylesheet the user wrote by hand: a rule, a double-quoted block whose
\* font-feature-settings value is a quoted string, and another rule
Handwritten ==
    <<"body", " ", "{", " ", "color", ":", " ", "red", ";", " ", "}", "\n">>
    \o <<"@FONT-FACE", "{", "font-family", ":", "\"", "B", "\"", ";",
         "src", ":", "url(", "\"", "/", "fonts", "/", "a.woff", "2", "\"", ")", ";",
         "font-feature-settings", ":", "'", "A", "'", "}", "\n">>
    \o <<"p", "{", "}", "\n">>

\* another one: a single block whose url has no directory part
Relative ==
    <<"@font-face", " ", "{", " ", "font-family", ":", " ", "'", "A", "'", ";", " ",
      "src", ":", " ", "url(", "'", "a.woff", "'", ")", ";", " ", "}", "\n">>

\* [exists, text, assets] the service may start from
InitStates ==
    { [exists |-> FALSE, text |-> <<>>, dir |-> NoFile],
      [exists |-> TRUE, text |-> <<>>, dir |-> NoFile],
      [exists |-> TRUE, text |-> Handwritten,
       dir |-> [f \in { <<"a.woff", "2">> } |-> 1]],
      [exists |-> TRUE, text |-> Relative,
       dir |-> [f \in { <<"a.woff">> } |-> 1]] }

Request(op, st, fam, newFam, file, bytes) ==
    [seq |-> last.seq + 1, op |-> op, status |-> st,
     fontFamily |-> fam, newFontFamily |-> newFam, fileName |-> file, bytes |-> bytes,
     repeat |-> IF /\ last.op = op /\ last.status = 200 /\ last.fontFamily = fam
                   /\ last.newFontFamily = newFam /\ last.fileName = file
                THEN IF /\ cssExists = last.preExists /\ content = last.preContent
                        /\ fontDir = last.preFontDir
                     THEN "after_noop" ELSE "after_change"
                ELSE "no",
     failed |-> "none", clean |-> last.clean,
     preExists |-> cssExists, preContent |-> content, preFontDir |-> fontDir]

\* the response 500 of a request whose I/O step `step` raised
Failure(op, step, fam, newFam, file, bytes) ==
    [Request(op, 500, fam, newFam, file, bytes) EXCEPT !.failed = step,
                                                       !.clean = FALSE]

\* no request is in flight
Idle(text) == [clock |-> 0, inflight |-> {}, log |-> <<>>, start |-> text]

InitFrom(states) ==
    \E s \in states :
        /\ race = Idle(s.text)
        /\ cssExists = s.exists
        /\ content = s.text
        /\ fontDir = s.dir
        /\ last = [seq |-> 0, op |-> "init", status |-> 0, fontFamily |-> <<>>,
                   newFontFamily |-> <<>>, fileName |-> <<>>, bytes |-> 0,
                   repeat |-> "no", failed |-> "none", clean |-> TRUE,
                   preExists |-> s.exists, preContent |-> s.text,
                   preFontDir |-> s.dir]

\* GET /api/list-fonts: the response is parse_user_css of the current state
list_fonts ==
    /\ last' = Request("list", 200, <<>>, <<>>, <<>>, 0)
    /\ UNCHANGED <<cssExists, content, fontDir>>

\* mutant: the file_path.exists() test left out, so that an upload overwrites
upload_font_unchecked(filename, font_family, font_weight, font_style, bytes) ==
    /\ fontDir' = [f \in DOMAIN fontDir \cup {filename} |->
                      IF f = filename THEN bytes ELSE fontDir[f]]
    /\ cssExists' = TRUE
    /\ content' = add_font_to_css(content, font_family, font_weight, font_style,
                                  filename)
    /\ last' = Request("add", 200, font_family, <<>>, filename, bytes)

\* mutant: the append opened in mode 'r+' and its error swallowed, so that an
\* upload into a missing stylesheet returns success without creating it
upload_font_not_creating(filename, font_family, font_weight, font_style, bytes) ==
    IF filename \in DOMAIN fontDir
    THEN /\ last' = Request("add", 409, font_family, <<>>, filename, bytes)
         /\ UNCHANGED <<cssExists, content, fontDir>>
    ELSE /\ fontDir' = [f \in DOMAIN fontDir \cup {filename} |->
                           IF f = filename THEN bytes ELSE fontDir[f]]
         /\ UNCHANGED cssExists
         /\ content' = IF cssExists
                       THEN add_font_to_css(content, font_family, font_weight,
                                            font_style, filename)
                       ELSE content
         /\ last' = Request("add", 200, font_family, <<>>, filename, bytes)

\* mutant: the rule appended without the font file being written
upload_font_rule_only(filename, font_family, font_weight, font_style, bytes) ==
    IF filename \in DOMAIN fontDir
    THEN /\ last' = Request("add", 409, font_family, <<>>, filename, bytes)
         /\ UNCHANGED <<cssExists, content, fontDir>>
    ELSE /\ UNCHANGED fontDir
         /\ cssExists' = TRUE
         /\ content' = add_font_to_css(content, font_family, font_weight, font_style,
                                       filename)
         /\ last' = Request("add", 200, font_family, <<>>, filename, bytes)

\* POST /api/upload-font.  An I/O step may raise: the write of the font file
\* (nothing saved), or the append to user.css (the file is already saved)
upload_font(filename, font_family, font_weight, font_style, bytes) ==
    IF filename \in DOMAIN fontDir
    THEN /\ last' = Request("add", 409, font_family, <<>>, filename, bytes)
         /\ UNCHANGED <<cssExists, content, fontDir>>
    ELSE \/ /\ fontDir' = [f \in DOMAIN fontDir \cup {filename} |->
                              IF f = filename THEN bytes ELSE fontDir[f]]
            /\ \/ /\ cssExists' = TRUE
                  /\ content' = add_font_to_css(content, font_family, font_weight,
                                                font_style, filename)
                  /\ last' = Request("add", 200, font_family, <<>>, filename, bytes)
               \/ /\ last' = Failure("add", "append", font_family, <<>>, filename,
                                       bytes)
                  /\ UNCHANGED <<cssExists, content>>
         \/ /\ last' = Failure("add", "save", font_family, <<>>, filename, bytes)
            /\ UNCHANGED <<cssExists, content, fontDir>>

\* mutant: os.remove called without the exists() test, so that a missing file
\* raises
remove_asset_strict(fontFamily, fileName) ==
    IF fileName \in DOMAIN fontDir
    THEN /\ fontDir' = [f \in DOMAIN fontDir \ {fileName} |-> fontDir[f]]
         /\ last' = Request("delete", 200, fontFamily, <<>>, fileName, 0)
    ELSE /\ UNCHANGED fontDir
         /\ last' = Request("delete", 500, fontFamily, <<>>, fileName, 0)

\* the second half of delete_font: os.remove of the asset, which may raise
remove_asset(fontFamily, fileName) ==
    IF fileName \in DOMAIN fontDir
    THEN \/ /\ fontDir' = [f \in DOMAIN fontDir \ {fileName} |-> fontDir[f]]
            /\ last' = Request("delete", 200, fontFamily, <<>>, fileName, 0)
         \/ /\ UNCHANGED fontDir
            /\ last' = Failure("delete", "remove", fontFamily, <<>>, fileName, 0)
    ELSE /\ UNCHANGED fontDir
         /\ last' = Request("delete", 200, fontFamily, <<>>, fileName, 0)

\* mutant: the asset removed before the stylesheet is rewritten, so that a
\* removal that raises leaves the stylesheet as it was
delete_font_asset_first(fontFamily, fileName) ==
    LET deleted_count ==
            IF cssExists
            THEN match_count(get_font_face_blocks(content), fontFamily, fileName)
            ELSE 0
        rewritten ==
            IF deleted_count > 0
            THEN update_css_file(delete_final_content(content, fontFamily, fileName))
            ELSE content
    IN /\ UNCHANGED cssExists
       /\ IF fileName \in DOMAIN fontDir
          THEN \/ /\ fontDir' = [f \in DOMAIN fontDir \ {fileName} |-> fontDir[f]]
                  /\ content' = rewritten
                  /\ last' = Request("delete", 200, fontFamily, <<>>, fileName, 0)
               \/ /\ UNCHANGED <<content, fontDir>>
                  /\ last' = Failure("delete", "remove", fontFamily, <<>>, fileName, 0)
          ELSE /\ content' = rewritten
               /\ UNCHANGED fontDir
               /\ last' = Request("delete", 200, fontFamily, <<>>, fileName, 0)

\* POST /api/delete-font.  The rewrite of user.css may raise (the asset is then
\* not reached)
delete_font(fontFamily, fileName) ==
    LET deleted_count ==
            IF cssExists
            THEN match_count(get_font_face_blocks(content), fontFamily, fileName)
            ELSE 0
    IN /\ UNCHANGED cssExists
       /\ IF deleted_count > 0
          THEN \/ /\ content' = update_css_file(
                                    delete_final_content(content, fontFamily, fileName))
                  /\ remove_asset(fontFamily, fileName)
               \/ /\ last' = Failure("delete", "write", fontFamily, <<>>, fileName, 0)
                  /\ UNCHANGED <<content, fontDir>>
          ELSE /\ UNCHANGED content
               /\ remove_asset(fontFamily, fileName)

\* mutant: a successful edit also removes the asset it renames the rule of
edit_font_removing_asset(oldFontFamily, newFontFamily, fileName) ==
    LET edited_count ==
            match_count(get_font_face_blocks(content), oldFontFamily, fileName)
    IN /\ UNCHANGED cssExists
       /\ IF ~cssExists \/ edited_count = 0
          THEN /\ last' = Request("edit", 404, oldFontFamily, newFontFamily, fileName, 0)
               /\ UNCHANGED <<content, fontDir>>
          ELSE /\ content' = update_css_file(
                                 edit_final_content(content, oldFontFamily,
                                                    newFontFamily, fileName))
               /\ fontDir' = [f \in DOMAIN fontDir \ {fileName} |-> fontDir[f]]
               /\ last' = Request("edit", 200, oldFontFamily, newFontFamily,
                                  fileName, 0)

\* POST /api/edit-font.  The rewrite of user.css may raise
edit_font(oldFontFamily, newFontFamily, fileName) ==
    LET edited_count ==
            match_count(get_font_face_blocks(content), oldFontFamily, fileName)
    IN /\ UNCHANGED <<cssExists, fontDir>>
       /\ IF ~cssExists \/ edited_count = 0
          THEN /\ last' = Request("edit", 404, oldFontFamily, newFontFamily, fileName, 0)
               /\ UNCHANGED content
          ELSE \/ /\ content' = update_css_file(
                                    edit_final_content(content, oldFontFamily,
                                                       newFontFamily, fileName))
                  /\ last' = Request("edit", 200, oldFontFamily, newFontFamily,
                                     fileName, 0)
               \/ /\ last' = Failure("edit", "write", oldFontFamily, newFontFamily,
                                     fileName, 0)
                  /\ UNCHANGED content

\* the run serves MaxRequests requests
Serving == last.seq < MaxRequests

List == Serving /\ list_fonts /\ UNCHANGED race

Upload ==
    /\ Serving
    /\ \E filename \in FileNames, font_family \in Families, font_weight \in Weights,
          font_style \in Styles, bytes \in Bytes :
           upload_font(filename, font_family, font_weight, font_style, bytes)
    /\ UNCHANGED race

Delete ==
    /\ Serving
    /\ \E fontFamily \in NewFamilies, fileName \in FileNames :
           delete_font(fontFamily, fileName)
    /\ UNCHANGED race

Edit ==
    /\ Serving
    /\ \E oldFontFamily \in NewFamilies, newFontFamily \in NewFamilies,
          fileName \in FileNames :
           edit_font(oldFontFamily, newFontFamily, fileName)
    /\ UNCHANGED race

Init == InitFrom(InitStates)

\* a fresh installation: an empty stylesheet and an empty font directory
InitEmpty == InitFrom({ [exists |-> TRUE, text |-> <<>>, dir |-> NoFile] })

Next == List \/ Upload \/ Delete \/ Edit

Spec == Init /\ [][Next]_vars

SpecEmpty == InitEmpty /\ [][Next]_vars

----------------------------------------------------------------------------
(* get_font_face_blocks and parse_user_css on stylesheets of any shape: the
   stylesheet is a sequence of segments, each one either text that is no
   block or one @font-face block, and the requests only read it *)

MaxSegments == 3    \* segments of the stylesheet

\* the segments: text, whether it is an @font-face block, and the entry the
\* block stands for (<<>> when it lacks a quoted family or a quoted url)
Segments ==
    { [text |-> <<"p", "{", "}", "\n">>, block |-> FALSE, entry |-> <<>>],
      [text |-> <<"@font-face", " ">>, block |-> FALSE, entry |-> <<>>],
      [text |-> <<"@font-face", " ", "{", " ", "font-family", ":", " ", "'", "A", "'",
                  ";", " ", "src", ":", " ", "url(", "'", "/", "webfonts", "/",
                  "a.woff", "'", ")", ";", " ", "}">>,
       block |-> TRUE,
       entry |-> << [fontFamily |-> <<"A">>, fileName |-> <<"a.woff">>] >>],
      [text |-> <<"@FONT-FACE", "{", "FONT-FAMILY", ":", "\"", "B", "\"", ";",
                  "SRC", ":", "URL(", "\"", "a.woff", "2", "\"", ")", "}">>,
       block |-> TRUE,
       entry |-> << [fontFamily |-> <<"B">>, fileName |-> <<"a.woff", "2">>] >>],
      [text |-> <<"@font-face", "\n", "{", "font-family", ":", "'", "A", "'", ";",
                  "@font-face", "}">>,
       block |-> TRUE, entry |-> <<>>],
      [text |-> <<"@font-face", "{", "font-family", ":", " ", "A", ";",
                  "src", ":", "url(", "'", "/", "a.woff", "'", ")", "}">>,
       block |-> TRUE, entry |-> <<>>],
      [text |-> <<"@font-face", "{", "font-family", ":", "'", "A", "'", ";",
                  "src", ":", "url(", "/", "a.woff", ")", "}">>,
       block |-> TRUE, entry |-> <<>>] }

SegmentLists == UNION { [1..n -> Segments] : n \in 0..MaxSegments }

\* the text of the stylesheet made of the segments
RECURSIVE TextOf(_)
TextOf(segs) ==
    IF segs = <<>> THEN <<>> ELSE Head(segs).text \o TextOf(Tail(segs))

\* user.css is missing, or holds the segments; nothing has been asked yet
InitText ==
    /\ fontDir = NoFile
    /\ race = Idle(<<>>)
    /\ \E segs \in SegmentLists, exists \in BOOLEAN :
           /\ exists \/ segs = <<>>
           /\ cssExists = exists
           /\ content = TextOf(segs)
           /\ last = [op |-> "init", segments |-> segs, blocks |-> <<>>,
                      fonts |-> <<>>]

\* get_font_face_blocks(content), as every handler calls it on what it read
Extract ==
    /\ cssExists
    /\ last' = [last EXCEPT !.op = "extract",
                            !.blocks = get_font_face_blocks(content)]
    /\ UNCHANGED <<cssExists, content, fontDir, race>>

\* GET /api/list-fonts: {"fonts": parse_user_css()}
Parse ==
    /\ last' = [last EXCEPT !.op = "list",
                            !.fonts = parse_user_css(cssExists, content)]
    /\ UNCHANGED <<cssExists, content, fontDir, race>>

NextText == Extract \/ Parse

SpecText == InitText /\ [][NextText]_vars

----------------------------------------------------------------------------
(* Requests in flight at the same time.  uvicorn.run(app) serves every request
   on one event loop, and every handler is an `async def`: a handler runs
   without interruption up to an await.  The only await of the handlers is
   `await font_file.read()` in upload_font, reached after the collision test
   and after open(file_path, "wb") has created the file; delete_font,
   edit_font and list_fonts run from their first line to their response. *)

MaxRaceRequests == 3    \* requests begun in one run

\* inputs of the racing requests
RaceBytes == {1}
RaceFamilies == { <<"A">> }
RaceNewFamilies == { <<"C">> }

\* the installations the racing requests start from
RaceStates ==
    { [exists |-> TRUE, text |-> <<>>, dir |-> NoFile],
      [exists |-> TRUE, text |-> Handwritten,
       dir |-> [f \in { <<"a.woff", "2">> } |-> 1]] }

InitRace == InitFrom(RaceStates)

Begun == Len(race.log) + Cardinality(race.inflight)

Racing == Begun < MaxRaceRequests

\* the response of a request that began at step `began` and ends with this step
Response(op, st, failed, fam, newFam, file, weight, style, began) ==
    [op |-> op, status |-> st, failed |-> failed, fontFamily |-> fam, newFontFamily |-> newFam,
     fileName |-> file, weight |-> weight, style |-> style,
     began |-> began, ended |-> race.clock + 1]

\* one more step: the uploads still suspended, and the response given, if any
Tick(inflight, responses) ==
    [race EXCEPT !.clock = @ + 1, !.inflight = inflight, !.log = @ \o responses]

\* mutant: the rule added to the stylesheet as it was when the upload began,
\* and the whole file written back
upload_base_at_arrival(u) == u.seen

\* the text add_font_to_css appends to: the file as it is when it is opened in
\* mode 'a'
upload_base(u) == content

\* mutant: the file opened only once the bytes have been read
opened_after_read(filename) == fontDir

\* the font directory once open(file_path, "wb") has created the empty file
opened_for_writing(filename) ==
    [f \in DOMAIN fontDir \cup {filename} |-> IF f = filename THEN 0 ELSE fontDir[f]]

\* upload_font up to `await font_file.read()`
BeginUpload ==
    /\ Racing
    /\ \E filename \in FileNames, font_family \in RaceFamilies,
          font_weight \in Weights, font_style \in Styles, bytes \in RaceBytes :
           IF filename \in DOMAIN fontDir
           THEN /\ last' = Request("add", 409, font_family, <<>>, filename, bytes)
                /\ race' = Tick(race.inflight,
                                <<Response("add", 409, "none", font_family, <<>>, filename,
                                           font_weight, font_style, race.clock + 1)>>)
                /\ UNCHANGED <<cssExists, content, fontDir>>
           ELSE \/ /\ fontDir' = opened_for_writing(filename)
                   /\ race' = Tick(race.inflight
                                       \cup { [began |-> race.clock + 1,
                                               filename |-> filename,
                                               font_family |-> font_family,
                                               font_weight |-> font_weight,
                                               font_style |-> font_style,
                                               bytes |-> bytes,
                                               linked |-> TRUE,
                                               seen |-> content] },
                                   <<>>)
                   /\ UNCHANGED <<cssExists, content, last>>
                \/ /\ last' = Failure("add", "save", font_family, <<>>, filename, bytes)
                   /\ race' = Tick(race.inflight,
                                   <<Response("add", 500, "save", font_family, <<>>, filename,
                                              font_weight, font_style,
                                              race.clock + 1)>>)
                   /\ UNCHANGED <<cssExists, content, fontDir>>

\* mutant: the saved file removed again when the append raises
EndUpload_rolling_back ==
    \E u \in race.inflight :
        LET rest == race.inflight \ {u}
            response(st, failed) ==
                <<Response("add", st, failed, u.font_family, <<>>, u.filename,
                                       u.font_weight, u.font_style, u.began)>>
        IN \/ /\ fontDir' = IF u.linked
                            THEN [f \in DOMAIN fontDir \cup {u.filename} |->
                                     IF f = u.filename THEN u.bytes ELSE fontDir[f]]
                            ELSE fontDir
              /\ cssExists' = TRUE
              /\ content' = add_font_to_css(upload_base(u), u.font_family,
                                            u.font_weight, u.font_style, u.filename)
              /\ last' = Request("add", 200, u.font_family, <<>>, u.filename, u.bytes)
              /\ race' = Tick(rest, response(200, "none"))
           \/ /\ fontDir' = [f \in DOMAIN fontDir \ {u.filename} |-> fontDir[f]]
              /\ last' = Failure("add", "append", u.font_family, <<>>, u.filename,
                                 u.bytes)
              /\ race' = Tick(rest, response(500, "append"))
              /\ UNCHANGED <<cssExists, content>>
           \/ /\ last' = Failure("add", "save", u.font_family, <<>>, u.filename,
                                 u.bytes)
              /\ race' = Tick(rest, response(500, "save"))
              /\ UNCHANGED <<cssExists, content, fontDir>>

\* upload_font from the await on: the bytes go to the file that was opened (to
\* no file of the directory when it has been removed since), then the rule is
\* appended
EndUpload ==
    \E u \in race.inflight :
        LET rest == race.inflight \ {u}
            response(st, failed) ==
                <<Response("add", st, failed, u.font_family, <<>>, u.filename,
                                       u.font_weight, u.font_style, u.began)>>
        IN \/ /\ fontDir' = IF u.linked
                            THEN [f \in DOMAIN fontDir \cup {u.filename} |->
                                     IF f = u.filename THEN u.bytes ELSE fontDir[f]]
                            ELSE fontDir
              /\ \/ /\ cssExists' = TRUE
                    /\ content' = add_font_to_css(upload_base(u), u.font_family,
                                                  u.font_weight, u.font_style,
                                                  u.filename)
                    /\ last' = Request("add", 200, u.font_family, <<>>, u.filename,
                                       u.bytes)
                    /\ race' = Tick(rest, response(200, "none"))
                 \/ /\ last' = Failure("add", "append", u.font_family, <<>>,
                                       u.filename, u.bytes)
                    /\ race' = Tick(rest, response(500, "append"))
                    /\ UNCHANGED <<cssExists, content>>
           \/ /\ last' = Failure("add", "save", u.font_family, <<>>, u.filename,
                                 u.bytes)
              /\ race' = Tick(rest, response(500, "save"))
              /\ UNCHANGED <<cssExists, content, fontDir>>

\* delete_font, while uploads may be suspended: os.remove unlinks the file a
\* suspended upload holds open.  The family may be one no rule of the file has
RacingDelete ==
    /\ Racing
    /\ \E fontFamily \in Families, fileName \in FileNames :
           /\ delete_font(fontFamily, fileName)
           /\ race' = Tick({ IF u.filename = fileName /\ fileName \notin DOMAIN fontDir'
                             THEN [u EXCEPT !.linked = FALSE] ELSE u :
                             u \in race.inflight },
                           <<Response("delete", last'.status, last'.failed, fontFamily, <<>>,
                                      fileName, <<>>, <<>>, race.clock + 1)>>)

\* edit_font, while uploads may be suspended
RacingEdit ==
    /\ Racing
    /\ \E oldFontFamily \in RaceFamilies, newFontFamily \in RaceNewFamilies,
          fileName \in FileNames :
           /\ edit_font(oldFontFamily, newFontFamily, fileName)
           /\ race' = Tick(race.inflight,
                           <<Response("edit", last'.status, last'.failed, oldFontFamily,
                                      newFontFamily, fileName, <<>>, <<>>,
                                      race.clock + 1)>>)

NextRace == BeginUpload \/ EndUpload \/ RacingDelete \/ RacingEdit

SpecRace == InitRace /\ [][NextRace]_vars

\* the event loop resumes every suspended upload and serves every request
SpecRaceFair == SpecRace /\ WF_vars(NextRace)

----------------------------------------------------------------------------
(* Vocabulary of the properties *)

\* list() now, and as it was when the last request arrived
ListNow == parse_user_css(cssExists, content)
ListBefore == parse_user_css(last.preExists, last.preContent)

BlocksNow == get_font_face_blocks(content)
BlocksBefore == get_font_face_blocks(last.preContent)

Entry(family, fileName) == [fontFamily |-> family, fileName |-> fileName]

\* how many times x occurs in the sequence
Count(seq, x) == Cardinality({i \in DOMAIN seq : seq[i] = x})

\* the identity rule: the block's font-family value is family and its src path
\* ends with /fileName
IdentityMatch(block, family, fileName) ==
    LET family_match == FamilySearch(block)
        src_match == SrcSearch(block)
        key == <<"/">> \o fileName
    IN /\ family_match # <<0, 0>>
       /\ Group(block, family_match) = family
       /\ src_match # <<0, 0>>
       /\ LET path == Group(block, src_match)
          IN OccursAt(path, key, Len(path) - Len(key) + 1)

\* the blocks of the sequence that are not the rule (family, fileName)
OtherBlocks(blocks, family, fileName) ==
    LET NotTheRule(b) == ~IdentityMatch(b, family, fileName)
    IN SelectSeq(blocks, NotTheRule)

\* no block of the stylesheet, as the last request found it, is the rule
NoRuleBefore(family, fileName) ==
    \/ ~last.preExists
    \/ \A i \in DOMAIN BlocksBefore : ~IdentityMatch(BlocksBefore[i], family, fileName)

\* the text outside every extracted block, by position
RECURSIVE Residue(_)
Residue(text) ==
    LET starts == {k \in 1..Len(text) : BlockEndAt(text, k) # 0}
    IN IF starts = {} THEN text
       ELSE LET b == MinOf(starts)
            IN SubSeq(text, 1, b - 1)
               \o Residue(SubSeq(text, BlockEndAt(text, b) + 1, Len(text)))

\* a text with its ends stripped and every run of whitespace made one space
Collapse(text) ==
    LET t == Strip(text)
        keep == {k \in 1..Len(t) : t[k] \notin WS \/ t[k - 1] \notin WS}
        Nth(j) == CHOOSE k \in keep : Cardinality({x \in keep : x <= k}) = j
    IN [j \in 1..Cardinality(keep) |->
           IF t[Nth(j)] \in WS THEN " " ELSE t[Nth(j)]]

\* the rules that are not @font-face blocks: the text outside the blocks,
\* less the marker comments, up to whitespace runs
OtherRules(text) ==
    LET NotMarker(tok) == tok # Marker
    IN Collapse(SelectSeq(Residue(text), NotMarker))

\* the asset directory with one file added, and with one file removed
DirWith(dir, fileName, bytes) ==
    [f \in DOMAIN dir \cup {fileName} |-> IF f = fileName THEN bytes ELSE dir[f]]
DirWithout(dir, fileName) == [f \in DOMAIN dir \ {fileName} |-> dir[f]]

NothingChanged ==
    /\ cssExists = last.preExists
    /\ content = last.preContent
    /\ fontDir = last.preFontDir

----------------------------------------------------------------------------
(* C1: an add whose fileName already exists in the font directory answers 409
   and changes nothing: the stylesheet, the stored bytes and list() are as
   they were when the request arrived. *)
AddCollisionMutatesNothing ==
    (last.op = "add" /\ last.fileName \in DOMAIN last.preFontDir)
        => /\ last.status = 409
           /\ NothingChanged
           /\ ListNow = ListBefore

\* a second add of a listed file, with other bytes, has been refused
AddCollisionWitness ==
    /\ last.op = "add"
    /\ last.status = 409
    /\ last.fileName \in DOMAIN fontDir
    /\ fontDir[last.fileName] # last.bytes
    /\ \E i \in DOMAIN ListNow : ListNow[i].fileName = last.fileName

----------------------------------------------------------------------------
(* C2 as stated: after a successful add(bytes, fileName, family, weight,
   style), list() contains the entry {family, fileName} exactly once. *)
AddListedExactlyOnce ==
    (last.op = "add" /\ last.status = 200)
        => Count(ListNow, Entry(last.fontFamily, last.fileName)) = 1

(* C2 as amended: a successful add appends exactly one entry {family,
   fileName} to list(): the entries listed before are all still there, in
   order, followed by the new one (so the entry occurs once more than before,
   and exactly once when it was not listed before). *)
AddAppendsOneEntry ==
    (last.op = "add" /\ last.status = 200)
        => ListNow = ListBefore \o <<Entry(last.fontFamily, last.fileName)>>

\* an add has succeeded for a file whose rule was still listed: its asset had
\* been removed by a delete that named another family
AddAppendsOneEntryWitness ==
    /\ last.op = "add"
    /\ last.status = 200
    /\ Count(ListBefore, Entry(last.fontFamily, last.fileName)) = 1
    /\ Count(ListNow, Entry(last.fontFamily, last.fileName)) = 2

----------------------------------------------------------------------------
(* C3 as stated: delete is idempotent.  After a delete(family, fileName) that
   returned success, list() holds no entry {family, fileName} and the asset
   fileName is not on disk; the same delete called again right after it
   returns success too and changes neither the stylesheet nor the asset
   directory. *)
DeleteIdempotentListed ==
    /\ (last.op = "delete" /\ last.status = 200)
           => /\ Count(ListNow, Entry(last.fontFamily, last.fileName)) = 0
              /\ last.fileName \notin DOMAIN fontDir
    /\ (last.op = "delete" /\ last.repeat # "no")
           => /\ last.status = 200
              /\ NothingChanged

(* C3 as amended: after a delete(family, fileName) that returned success, the
   stylesheet holds no block that is the rule (family, fileName) by the
   identity rule, and the asset fileName is not on disk; the same delete
   called again right after it returns success too and changes neither the
   stylesheet nor the asset directory. *)
DeleteIdempotent ==
    /\ (last.op = "delete" /\ last.status = 200)
           => /\ \A i \in DOMAIN BlocksNow :
                     ~IdentityMatch(BlocksNow[i], last.fontFamily, last.fileName)
              /\ last.fileName \notin DOMAIN fontDir
    /\ (last.op = "delete" /\ last.repeat # "no")
           => /\ last.status = 200
              /\ NothingChanged

\* the second of two equal deletes has returned, the first one having removed
\* a rule or an asset, and other rules are still listed
DeleteIdempotentWitness ==
    /\ last.op = "delete"
    /\ last.repeat = "after_change"
    /\ last.status = 200
    /\ ListNow # <<>>

----------------------------------------------------------------------------
(* C4: edit(oldFamily, newFamily, fileName) on a stylesheet in which no block
   is the rule (oldFamily, fileName), or whose file does not exist, answers
   404, leaves the stylesheet as it was and creates nothing. *)
EditNotFoundChangesNothing ==
    (last.op = "edit" /\ NoRuleBefore(last.fontFamily, last.fileName))
        => /\ last.status = 404
           /\ NothingChanged

----------------------------------------------------------------------------
(* C5: a successful edit(oldFamily, newFamily, fileName) writes every block
   that is not the rule (oldFamily, fileName) back unchanged (its family,
   weight and style as they were), in the same order, so that its entry is
   still listed. *)
EditPreservesOtherRules ==
    (last.op = "edit" /\ last.status = 200)
        => /\ Len(BlocksNow) = Len(BlocksBefore)
           /\ \A i \in DOMAIN BlocksBefore :
                  ~IdentityMatch(BlocksBefore[i], last.fontFamily, last.fileName)
                      => /\ i \in DOMAIN BlocksNow
                         /\ BlocksNow[i] = BlocksBefore[i]

----------------------------------------------------------------------------
(* C6: the rules of the stylesheet that are not @font-face blocks are the
   same, verbatim and in the same order, before and after every add, delete
   and edit: none is dropped, altered or duplicated. *)
OtherRulesSurvive ==
    last.op \in {"add", "delete", "edit"}
        => OtherRules(content) = OtherRules(last.preContent)

\* a delete or an edit has rewritten a stylesheet that holds a rule before
\* and a rule after its font-face blocks
OtherRulesSurviveWitness ==
    /\ last.op \in {"delete", "edit"}
    /\ last.status = 200
    /\ content # last.preContent
    /\ Contains(OtherRules(content), <<"body", " ", "{">>)
    /\ Contains(OtherRules(content), <<"p", "{", "}">>)

----------------------------------------------------------------------------
(* C7: the identity rule.  delete and edit treat a block as the target of
   (family, fileName) exactly when its font-family value is family and its src
   path ends with /fileName: a delete removes those blocks and no other, an
   edit rewrites those blocks and no other, and answers 404 exactly when
   there is none. *)
IdentityRuleSelects ==
    /\ (last.op = "delete" /\ last.status = 200 /\ last.preExists)
           => BlocksNow = OtherBlocks(BlocksBefore, last.fontFamily, last.fileName)
    /\ (last.op = "edit" /\ last.status = 200)
           => /\ ~NoRuleBefore(last.fontFamily, last.fileName)
              /\ \A i \in DOMAIN BlocksBefore \cap DOMAIN BlocksNow :
                     BlocksNow[i] # BlocksBefore[i]
                         => IdentityMatch(BlocksBefore[i], last.fontFamily,
                                          last.fileName)
    /\ (last.op = "edit" /\ last.status = 404)
           => NoRuleBefore(last.fontFamily, last.fileName)

----------------------------------------------------------------------------
(* C8: after a successful edit(oldFamily, newFamily, fileName) every block
   that was the rule (oldFamily, fileName) has its first font-family value
   replaced by newFamily between the quotes it had, and is listed as
   {newFamily, fileName}; no block is the rule (oldFamily, fileName) any more
   (when the two families differ), and list() has as many entries as before. *)
EditRenamesRule ==
    (last.op = "edit" /\ last.status = 200)
        => /\ Len(BlocksNow) = Len(BlocksBefore)
           /\ Len(ListNow) = Len(ListBefore)
           /\ \A i \in DOMAIN BlocksBefore :
                  IdentityMatch(BlocksBefore[i], last.fontFamily, last.fileName)
                      => LET b == BlocksBefore[i]
                             m == FamilySearch(b)
                         IN /\ BlocksNow[i] = SubSeq(b, 1, m[1]) \o last.newFontFamily
                                              \o SubSeq(b, m[2], Len(b))
                            /\ FontsOf(<<BlocksNow[i]>>)
                                   = <<Entry(last.newFontFamily, last.fileName)>>
           /\ last.newFontFamily # last.fontFamily
                  => \A i \in DOMAIN BlocksNow :
                         ~IdentityMatch(BlocksNow[i], last.fontFamily, last.fileName)

\* an edit has renamed a double-quoted rule to another family
EditRenamesRuleWitness ==
    /\ last.op = "edit"
    /\ last.status = 200
    /\ last.newFontFamily # last.fontFamily
    /\ \E i \in DOMAIN BlocksBefore :
           /\ IdentityMatch(BlocksBefore[i], last.fontFamily, last.fileName)
           /\ Contains(BlocksBefore[i], Quoted("\"", last.fontFamily))
    /\ Count(ListBefore, Entry(last.fontFamily, last.fileName)) = 1
    /\ Count(ListNow, Entry(last.newFontFamily, last.fileName)) = 1

----------------------------------------------------------------------------
(* C9 as stated: the set of asset files changes only by a successful add,
   which adds exactly fileName, and by a delete, which removes exactly
   fileName; edit and list never create, modify or remove an asset. *)
AssetsChangeOnlyOnSuccess ==
    fontDir # last.preFontDir
        => \/ /\ last.op = "add"
              /\ last.status = 200
              /\ last.fileName \notin DOMAIN last.preFontDir
              /\ fontDir = DirWith(last.preFontDir, last.fileName, last.bytes)
           \/ /\ last.op = "delete"
              /\ last.fileName \in DOMAIN last.preFontDir
              /\ fontDir = DirWithout(last.preFontDir, last.fileName)

(* C9 as amended: the set of asset files changes only by an add that passed
   the collision test and saved the bytes, which adds exactly fileName whether
   the add then returns success or fails at the stylesheet append (500, the
   file stays), and by a delete, which removes exactly fileName; edit and list
   never create, modify or remove an asset. *)
AssetLifecycle ==
    fontDir # last.preFontDir
        => \/ /\ last.op = "add"
              /\ last.status \in {200, 500}
              /\ last.fileName \notin DOMAIN last.preFontDir
              /\ fontDir = DirWith(last.preFontDir, last.fileName, last.bytes)
           \/ /\ last.op = "delete"
              /\ last.fileName \in DOMAIN last.preFontDir
              /\ fontDir = DirWithout(last.preFontDir, last.fileName)

\* an add has saved its file and then failed, other assets being on disk
AssetLifecycleWitness ==
    /\ last.op = "add"
    /\ last.status = 500
    /\ fontDir # last.preFontDir
    /\ last.preFontDir # NoFile

----------------------------------------------------------------------------
(* C10: a delete(family, fileName) for which no block is the rule (family,
   fileName), or whose stylesheet does not exist, leaves the stylesheet as it
   was, removes the asset fileName if it is on disk, and returns success; it
   fails only when an asset that is on disk cannot be removed. *)
DeleteWithoutRule ==
    (last.op = "delete" /\ NoRuleBefore(last.fontFamily, last.fileName))
        => /\ cssExists = last.preExists
           /\ content = last.preContent
           /\ last.status \in {200, 500}
           /\ last.status = 200
                  => fontDir = DirWithout(last.preFontDir, last.fileName)
           /\ last.status = 500
                  => /\ last.fileName \in DOMAIN last.preFontDir
                     /\ fontDir = last.preFontDir

----------------------------------------------------------------------------
(* C11: when the asset file exists and its removal raises, delete answers 500
   and leaves the asset on disk, while the rewrite of the stylesheet has
   already been applied and stays: if a block was the rule (family, fileName),
   the stylesheet has changed, no block is that rule any more and list() has
   lost entries. *)
DeletePartialFailure ==
    (last.op = "delete" /\ last.failed = "remove")
        => /\ last.status = 500
           /\ last.fileName \in DOMAIN last.preFontDir
           /\ fontDir = last.preFontDir
           /\ cssExists = last.preExists
           /\ ~NoRuleBefore(last.fontFamily, last.fileName)
                  => /\ content # last.preContent
                     /\ \A i \in DOMAIN BlocksNow :
                            ~IdentityMatch(BlocksNow[i], last.fontFamily,
                                           last.fileName)
                     /\ Len(ListNow) < Len(ListBefore)

\* a delete has removed its rule from the stylesheet and then failed to remove
\* the asset
DeletePartialFailureWitness ==
    /\ last.op = "delete"
    /\ last.failed = "remove"
    /\ ~NoRuleBefore(last.fontFamily, last.fileName)
    /\ Count(ListBefore, Entry(last.fontFamily, last.fileName)) = 1
    /\ Count(ListNow, Entry(last.fontFamily, last.fileName)) = 0
    /\ last.fileName \in DOMAIN fontDir

----------------------------------------------------------------------------
(* C12 as stated: when the stylesheet file does not exist, an add that passed
   the collision test fails at the append step (500) and does not create the
   stylesheet. *)
AddNeedsStylesheet ==
    (last.op = "add" /\ ~last.preExists /\ last.fileName \notin DOMAIN last.preFontDir)
        => /\ last.status = 500
           /\ ~cssExists

(* C12 as amended: when the stylesheet file does not exist, an add that passed
   the collision test and whose I/O steps did not raise returns success and
   creates the stylesheet, which then holds the new block and nothing else but
   its marker comment, listed as the single entry {family, fileName}; an add
   that does not return success leaves the stylesheet missing. *)
AddCreatesStylesheet ==
    (last.op = "add" /\ ~last.preExists)
        => /\ last.fileName \notin DOMAIN last.preFontDir
                  => \/ last.status = 200 /\ last.failed = "none"
                     \/ last.status = 500 /\ last.failed \in {"save", "append"}
           /\ last.status = 200
                  => /\ cssExists
                     /\ Len(BlocksNow) = 1
                     /\ ListNow = <<Entry(last.fontFamily, last.fileName)>>
                     /\ OtherRules(content) = <<>>
                     /\ content[Len(content)] = "\n"
           /\ last.status # 200
                  => /\ ~cssExists
                     /\ content = <<>>

\* an add has succeeded although there was no stylesheet, and has created it
AddCreatesStylesheetWitness ==
    /\ last.op = "add"
    /\ last.status = 200
    /\ ~last.preExists
    /\ cssExists
    /\ Contains(content, <<Marker, "\n", "@font-face">>)

----------------------------------------------------------------------------
\* the blocks, and the entries, of the segments the stylesheet was made of
RECURSIVE SegmentBlocks(_)
SegmentBlocks(segs) ==
    IF segs = <<>> THEN <<>>
    ELSE (IF Head(segs).block THEN <<Head(segs).text>> ELSE <<>>)
         \o SegmentBlocks(Tail(segs))

RECURSIVE SegmentEntries(_)
SegmentEntries(segs) ==
    IF segs = <<>> THEN <<>> ELSE Head(segs).entry \o SegmentEntries(Tail(segs))

(* C13: for a text that holds N @font-face blocks without inner braces (the
   keyword in either case, whitespace allowed before the brace), among text
   that is no block, get_font_face_blocks returns exactly those N blocks, in
   source order; for a text without any block, the empty text included, it
   returns the empty sequence. *)
ExtractorReturnsBlocks ==
    last.op = "extract"
        => /\ last.blocks = SegmentBlocks(last.segments)
           /\ (\A i \in DOMAIN last.segments : ~last.segments[i].block)
                  => last.blocks = <<>>

\* three blocks, one with the keyword in upper case, have been extracted
ExtractorReturnsBlocksWitness ==
    /\ last.op = "extract"
    /\ Len(last.blocks) = 3
    /\ \E i \in 1..3 : last.blocks[i][1] = "@FONT-FACE"
    /\ \E i \in 1..3 : last.blocks[i][1] = "@font-face"

----------------------------------------------------------------------------
(* C14: list() returns, in source order, one entry {family, fileName} for
   every extracted block in which font-family: is followed by a quoted value
   and src: by a url( with a quoted path, fileName being the last segment of
   the path; a block that lacks either is skipped, two blocks with the same
   family and fileName give two entries, and a missing stylesheet gives the
   empty list. *)
ListProjectsBlocks ==
    last.op = "list"
        => /\ cssExists => last.fonts = SegmentEntries(last.segments)
           /\ ~cssExists => last.fonts = <<>>

\* list() has returned the same entry twice and skipped a block between the two
ListProjectsBlocksWitness ==
    /\ last.op = "list"
    /\ Len(last.fonts) = 2
    /\ last.fonts[1] = last.fonts[2]
    /\ Len(last.segments) = 3
    /\ last.segments[2].block
    /\ last.segments[2].entry = <<>>

----------------------------------------------------------------------------
\* two requests were in flight at the same time
Overlap(a, b) == a.began < b.ended /\ b.began < a.ended

\* the stylesheet a request that gave response e makes of the text it finds,
\* when nothing else runs
Apply(e, text) ==
    IF e.op = "add" /\ e.status = 200
    THEN add_font_to_css(text, e.fontFamily, e.weight, e.style, e.fileName)
    ELSE IF /\ e.op = "delete"
            /\ e.failed # "write"
            /\ match_count(get_font_face_blocks(text), e.fontFamily, e.fileName) > 0
    THEN update_css_file(delete_final_content(text, e.fontFamily, e.fileName))
    ELSE IF e.op = "edit" /\ e.status = 200
    THEN update_css_file(edit_final_content(text, e.fontFamily, e.newFontFamily,
                                            e.fileName))
    ELSE text

\* the stylesheet after the requests of the log, run one after the other
RECURSIVE Serial(_, _)
Serial(log, text) ==
    IF log = <<>> THEN text ELSE Serial(Tail(log), Apply(Head(log), text))

\* two requests in flight at the same time have both returned success, and the
\* stylesheet is not what their changes make one after the other
LostUpdate ==
    /\ content # Serial(race.log, race.start)
    /\ \E i, j \in DOMAIN race.log :
           /\ i < j
           /\ Overlap(race.log[i], race.log[j])
           /\ race.log[i].status = 200
           /\ race.log[j].status = 200

(* C15 as stated: two requests among add, delete and edit that run at the same
   time can interleave so that one update is lost; the fair run of the server
   reaches a state in which both have returned success and the stylesheet
   holds only the last writer's change. *)
LostUpdateOccurs == <>LostUpdate

(* C15 as amended: no interleaving of add, delete and edit that the handlers
   allow loses an update of the stylesheet: at every moment the stylesheet is
   what the requests that have responded so far make of the initial one when
   they run one after the other, in the order of their responses. *)
NoLostUpdate == content = Serial(race.log, race.start)

\* an edit or a delete has rewritten the stylesheet while an upload was
\* suspended, the upload has then appended its rule, and the stylesheet holds
\* both changes
NoLostUpdateWitness ==
    /\ race.inflight = {}
    /\ Len(race.log) = 2
    /\ Overlap(race.log[1], race.log[2])
    /\ race.log[1].op \in {"delete", "edit"}
    /\ race.log[2].op = "add"
    /\ race.log[1].status = 200
    /\ race.log[2].status = 200
    /\ Apply(race.log[1], race.start) # race.start
    /\ content # Apply(race.log[2], race.start)
    /\ content # Apply(race.log[1], race.start)

----------------------------------------------------------------------------
\* the positions of the marker comments, and of the first tokens of the blocks
MarkersOf(text) == {k \in 1..Len(text) : text[k] = Marker}
BlockStarts(text) == {k \in 1..Len(text) : BlockEndAt(text, k) # 0}

\* a marker comment stands right before a block that is the rule
MarkedRuleBefore(family, fileName) ==
    \E k \in MarkersOf(last.preContent) :
        /\ BlockEndAt(last.preContent, k + 2) # 0
        /\ last.preContent[k + 1] = "\n"
        /\ IdentityMatch(SubSeq(last.preContent, k + 2,
                                BlockEndAt(last.preContent, k + 2)),
                         family, fileName)

(* C16 as stated: after a successful edit of a rule that had the panel marker
   comment attached, that comment is lost: the rewritten stylesheet holds fewer
   marker comments than before. *)
EditDropsMarker ==
    (last.op = "edit" /\ last.status = 200
         /\ MarkedRuleBefore(last.fontFamily, last.fileName))
        => Cardinality(MarkersOf(content)) < Cardinality(MarkersOf(last.preContent))

(* C16 as amended: a successful edit loses no marker comment: the rewritten
   stylesheet holds as many marker comments as before, all of them in the
   text written before the @font-face blocks, where they are no longer
   attached to the rules they were added with. *)
EditKeepsMarkers ==
    (last.op = "edit" /\ last.status = 200)
        => /\ Cardinality(MarkersOf(content))
                  = Cardinality(MarkersOf(last.preContent))
           /\ \A k \in MarkersOf(content), b \in BlockStarts(content) : k < b

\* an edit has renamed a rule that had its marker comment, next to another
\* rule, and the comment is still in the stylesheet
EditKeepsMarkersWitness ==
    /\ last.op = "edit"
    /\ last.status = 200
    /\ MarkedRuleBefore(last.fontFamily, last.fileName)
    /\ Len(BlocksNow) >= 2
    /\ MarkersOf(content) # {}

----------------------------------------------------------------------------
\* the last request has rewritten the stylesheet: a delete that matched a
\* block, or an edit that returned success
Rewritten ==
    \/ /\ last.op = "delete"
       /\ last.preExists
       /\ last.failed # "write"
       /\ match_count(BlocksBefore, last.fontFamily, last.fileName) > 0
    \/ /\ last.op = "edit"
       /\ last.status = 200

(* C17: after a delete that matched at least one block, or a successful edit,
   the stylesheet is the non-font-face content followed by the @font-face
   blocks: the blocks stand together at the end, one per line, and are the
   blocks of before in their order, less the deleted ones (delete) or with the
   edited ones rewritten in place (edit), none dropped or duplicated; all the
   non-font-face content stands before the first block; the text ends with
   exactly one newline. *)
RebuildLayout ==
    Rewritten
        => /\ content[Len(content)] = "\n"
           /\ Len(content) > 1 => content[Len(content) - 1] \notin WS
           /\ LET blocks == Join(BlocksNow, <<"\n">>) \o <<"\n">>
                  first == Len(content) - Len(blocks) + 1
              IN BlocksNow # <<>>
                     => /\ first >= 1
                        /\ SubSeq(content, first, Len(content)) = blocks
                        /\ BlockStarts(SubSeq(content, 1, first - 1)) = {}
                        /\ OtherRules(SubSeq(content, 1, first - 1))
                               = OtherRules(last.preContent)
           /\ BlocksNow = <<>> => OtherRules(content) = OtherRules(last.preContent)
           /\ last.op = "delete"
                  => BlocksNow = blocks_to_keep(BlocksBefore, last.fontFamily,
                                                last.fileName)
           /\ last.op = "edit"
                  => BlocksNow = new_blocks(BlocksBefore, last.fontFamily,
                                            last.newFontFamily, last.fileName)

\* a delete has removed a block that stood between two rules and has kept
\* another block, now after both rules
RebuildLayoutWitness ==
    /\ last.op = "delete"
    /\ last.status = 200
    /\ Len(BlocksBefore) > Len(BlocksNow)
    /\ Len(BlocksNow) >= 1
    /\ Contains(content, <<"body", " ", "{">>)
    /\ Contains(content, <<"p", "{", "}", "\n", "\n", "@font-face">>)

----------------------------------------------------------------------------
\* the entries of a list whose asset is not in the directory
Dangling(list, dir) ==
    {i \in DOMAIN list : list[i].fileName \notin DOMAIN dir}

(* C18 as stated: in every state reached from an empty stylesheet and an empty
   font directory by add, delete, edit and list calls of which no I/O step
   raised, every entry {family, fileName} of list() has its asset fileName in
   the font directory. *)
RulesNeverDangle ==
    last.clean => Dangling(ListNow, fontDir) = {}

(* C18 as amended: an entry of list() comes to lack its asset only by a delete
   of its fileName that names another family and so leaves the rule while it
   removes the asset; an entry that lacks its asset after any other request
   was listed, under its fileName, without its asset before that request. *)
RulesDangleOnlyByDelete ==
    \A i \in Dangling(ListNow, fontDir) :
        \/ \E j \in Dangling(ListBefore, last.preFontDir) :
               ListBefore[j].fileName = ListNow[i].fileName
        \/ /\ last.op = "delete"
           /\ last.status = 200
           /\ last.fileName = ListNow[i].fileName
           /\ last.fontFamily # ListNow[i].fontFamily
           /\ last.fileName \in DOMAIN last.preFontDir

\* a delete naming another family has removed the asset of a listed rule, no
\* I/O step having raised
RulesDangleOnlyByDeleteWitness ==
    /\ last.clean
    /\ last.op = "delete"
    /\ last.status = 200
    /\ Dangling(ListBefore, last.preFontDir) = {}
    /\ Dangling(ListNow, fontDir) # {}
    /\ content = last.preContent

----------------------------------------------------------------------------
\* list() of the stylesheet the racing requests started from
ListAtStart == parse_user_css(TRUE, race.start)

\* the entries of a list that name the file
EntriesOf(list, fileName) == {i \in DOMAIN list : list[i].fileName = fileName}

\* two adds of the same fileName were in flight at the same time, and no
\* delete of that fileName responded while either was
ConcurrentAdds(a, b) ==
    /\ a.op = "add"
    /\ b.op = "add"
    /\ a.fileName = b.fileName
    /\ Overlap(a, b)
    /\ \A k \in DOMAIN race.log :
           LET d == race.log[k]
           IN ~(/\ d.op = "delete"
                /\ d.fileName = a.fileName
                /\ (Overlap(d, a) \/ Overlap(d, b)))

(* C19: when two adds of the same fileName are in flight at the same time (and
   no delete of that fileName is), at most one of them returns success and at
   most one block for that fileName is appended; the other one returns 409,
   and the step that answers 409 (the latest step, when it gave that
   response) changes neither the stylesheet nor the font directory. *)
AtMostOneAddWins ==
    /\ \A i, j \in DOMAIN race.log :
           (i < j /\ ConcurrentAdds(race.log[i], race.log[j]))
               => /\ race.log[i].status = 409
                  /\ race.log[j].status \in {200, 500}
                  /\ Cardinality(EntriesOf(ListNow, race.log[i].fileName))
                         <= Cardinality(EntriesOf(ListAtStart, race.log[i].fileName))
                            + Cardinality({k \in DOMAIN race.log :
                                              /\ race.log[k].op = "add"
                                              /\ race.log[k].status = 200
                                              /\ race.log[k].fileName
                                                     = race.log[i].fileName})
                  /\ Len(race.log) = 2
                         => Cardinality(EntriesOf(ListNow, race.log[i].fileName))
                                <= Cardinality(EntriesOf(ListAtStart,
                                                         race.log[i].fileName)) + 1
    /\ (/\ race.log # <<>>
        /\ race.log[Len(race.log)].ended = race.clock
        /\ race.log[Len(race.log)].op = "add"
        /\ race.log[Len(race.log)].status = 409) => NothingChanged

\* of two adds of the same file in flight at the same time, one has been
\* refused and the other one has succeeded
AtMostOneAddWinsWitness ==
    /\ race.inflight = {}
    /\ Len(race.log) = 2
    /\ ConcurrentAdds(race.log[1], race.log[2])
    /\ race.log[1].status = 409
    /\ race.log[2].status = 200
    /\ Cardinality(EntriesOf(ListNow, race.log[1].fileName)) = 1
    /\ fontDir[race.log[2].fileName] = 1

----------------------------------------------------------------------------
(* C20: when an add of fileName and a delete of the same fileName (and family)
   are in flight at the same time, both return success, nothing else runs and
   no rule for fileName was there at the start, the final state is consistent: the stylesheet lists a rule for fileName
   only if the asset fileName is in the font directory. *)
AddDeleteRaceConsistent ==
    (/\ race.inflight = {}
     /\ Len(race.log) = 2
     /\ Overlap(race.log[1], race.log[2])
     /\ race.log[1].op = "delete"
     /\ race.log[2].op = "add"
     /\ race.log[1].status = 200
     /\ race.log[2].status = 200
     /\ race.log[1].fileName = race.log[2].fileName
     /\ race.log[1].fontFamily = race.log[2].fontFamily
     /\ EntriesOf(ListAtStart, race.log[2].fileName) = {})
        => \A i \in EntriesOf(ListNow, race.log[2].fileName) :
               ListNow[i].fileName \in DOMAIN fontDir

----------------------------------------------------------------------------
\* a delete of the file the add names has answered success since the add began
\* (from that response on the file is not the one the add saved)
RemovedSince(a) ==
    \E k \in DOMAIN race.log :
        /\ race.log[k].op = "delete"
        /\ race.log[k].status = 200
        /\ race.log[k].fileName = a.fileName
        /\ race.log[k].ended > a.began

\* an add whose append to the stylesheet raised, the bytes being saved, and
\* whose file no delete has removed since
Orphaned(a) ==
    /\ a.op = "add"
    /\ a.failed = "append"
    /\ ~RemovedSince(a)

\* every add of the same fileName that began after the add a had answered and
\* has answered itself was refused with 409
LaterAddsConflict(a) ==
    \A k \in DOMAIN race.log :
        (/\ race.log[k].op = "add"
         /\ race.log[k].fileName = a.fileName
         /\ race.log[k].began > a.ended) => race.log[k].status = 409

\* the latest step gave the response a
JustAnswered(a) ==
    /\ race.log # <<>>
    /\ race.log[Len(race.log)] = a
    /\ a.ended = race.clock

\* the requests answered so far were served one after the other
Sequential ==
    /\ race.inflight = {}
    /\ \A i, j \in DOMAIN race.log :
           i # j => ~Overlap(race.log[i], race.log[j])

(* C21 as stated, of requests served one after the other: when add's append
   to the stylesheet raises after the font bytes were saved, add answers 500
   and, until a delete of that fileName removes the file, the file is in the
   font directory, list() holds no entry {family, fileName} of that add, and
   every later add of the same fileName answers 409. *)
AddFailureLeavesNoRule ==
    \A i \in DOMAIN race.log :
        (Sequential /\ Orphaned(race.log[i]))
            => /\ race.log[i].status = 500
               /\ race.log[i].fileName \in DOMAIN fontDir
               /\ \A k \in DOMAIN ListNow :
                      ListNow[k] # Entry(race.log[i].fontFamily, race.log[i].fileName)
               /\ LaterAddsConflict(race.log[i])

(* C21 as amended: when add's append to the stylesheet raises after the font
   bytes were saved, add answers 500 and adds no rule: the step leaves the
   stylesheet and list() as they were and the saved bytes in the font
   directory.  Until a delete of that fileName removes the file, the file
   stays in the font directory, every later add of the same fileName answers
   409, and list() holds no more entries for that fileName than the initial
   stylesheet and the adds that answered success gave; it holds none when
   these gave none. *)
AddFailureAddsNoRule ==
    \A i \in DOMAIN race.log :
        LET a == race.log[i]
        IN Orphaned(a)
            => /\ a.status = 500
               /\ a.fileName \in DOMAIN fontDir
               /\ LaterAddsConflict(a)
               /\ Cardinality(EntriesOf(ListNow, a.fileName))
                      <= Cardinality(EntriesOf(ListAtStart, a.fileName))
                         + Cardinality({k \in DOMAIN race.log :
                                           /\ race.log[k].op = "add"
                                           /\ race.log[k].status = 200
                                           /\ race.log[k].fileName = a.fileName})
               /\ JustAnswered(a)
                      => /\ cssExists = last.preExists
                         /\ content = last.preContent
                         /\ ListNow = ListBefore
                         /\ fontDir = DirWith(last.preFontDir, a.fileName, last.bytes)

\* an add's append has raised, its file is on disk without a rule in list(),
\* and a later add of the same fileName has been refused
AddFailureAddsNoRuleWitness ==
    /\ race.inflight = {}
    /\ Len(race.log) = 2
    /\ Orphaned(race.log[1])
    /\ race.log[2].op = "add"
    /\ race.log[2].fileName = race.log[1].fileName
    /\ race.log[2].began > race.log[1].ended
    /\ race.log[2].status = 409
    /\ fontDir[race.log[1].fileName] = 1
    /\ EntriesOf(ListNow, race.log[1].fileName) = {}

====
